---- MODULE Spec2Model ----
(***************************************************************************)
(* Model of presentation/build_presentation.py: the deck builder that      *)
(* resolves one image per syndrome record (direct URL, then Wikipedia      *)
(* thumbnail lookup, then none), builds one slide per record, collects the *)
(* image references and saves the deck.                                    *)
(*                                                                         *)
(* Strings that the code takes apart (record names, file names) are        *)
(* sequences of one-character strings.  URLs are tagged tuples.            *)
(***************************************************************************)
EXTENDS Naturals, Sequences, FiniteSets

\* ------------------------------------------------------------------ bounds
\* number of records of the dataset that a run processes (a prefix of the list)
NumRecords == 2
\* number of times the script is run against the same images directory
MaxRuns == 2
\* longest record name drawn when the file-name derivation is checked alone
MaxNameLen == 2

\* Python None, and the empty string: the falsy values of an optional string
None == << >>

\* ----------------------------------------------------------------- dataset
\* the "name" fields of the syndromes list, in list order
syndromeNames ==
 << << "A", "p", "e", "r", "t", " ", "S", "y", "n", "d", "r", "o", "m", "e" >>,
    << "C", "r", "o", "u", "z", "o", "n", " ", "S", "y", "n", "d", "r", "o", "m", "e" >>,
    << "P", "f", "e", "i", "f", "f", "e", "r", " ", "S", "y", "n", "d", "r", "o", "m", "e" >>,
    << "S", "a", "e", "t", "h", "r", "e", "-", "C", "h", "o", "t", "z", "e", "n", " ", "S", "y", "n", "d", "r", "o", "m", "e" >>,
    << "C", "a", "r", "p", "e", "n", "t", "e", "r", " ", "S", "y", "n", "d", "r", "o", "m", "e" >>,
    << "M", "u", "e", "n", "k", "e", " ", "S", "y", "n", "d", "r", "o", "m", "e" >>,
    << "T", "r", "e", "a", "c", "h", "e", "r", " ", "C", "o", "l", "l", "i", "n", "s", " ", "S", "y", "n", "d", "r", "o", "m", "e" >>,
    << "P", "i", "e", "r", "r", "e", " ", "R", "o", "b", "i", "n", " ", "S", "e", "q", "u", "e", "n", "c", "e" >>,
    << "H", "e", "m", "i", "f", "a", "c", "i", "a", "l", " ", "M", "i", "c", "r", "o", "s", "o", "m", "i", "a", " ", "/", " ", "G", "o", "l", "d", "e", "n", "h", "a", "r" >>,
    << "F", "r", "e", "e", "m", "a", "n", "-", "S", "h", "e", "l", "d", "o", "n", " ", "S", "y", "n", "d", "r", "o", "m", "e" >>
 >>

\* the records a run iterates over
Records == 1 .. NumRecords

\* ------------------------------------------------------- file-name derivation
\* str.lower() on one character
LowerTable ==
  [A |-> "a", B |-> "b", C |-> "c", D |-> "d", E |-> "e", F |-> "f", G |-> "g",
   H |-> "h", I |-> "i", J |-> "j", K |-> "k", L |-> "l", M |-> "m", N |-> "n",
   O |-> "o", P |-> "p", Q |-> "q", R |-> "r", S |-> "s", T |-> "t", U |-> "u",
   V |-> "v", W |-> "w", X |-> "x", Y |-> "y", Z |-> "z"]

LowerChar(c) == IF c \in DOMAIN LowerTable THEN LowerTable[c] ELSE c

\* str.lower()
Lower(s) == [k \in 1 .. Len(s) |-> LowerChar(s[k])]

\* str.replace(old, new) for one-character old and new
Replace(s, old, new) == [k \in 1 .. Len(s) |-> IF s[k] = old THEN new ELSE s[k]]

\* faulty variant: the slash is left in the file name
FilenameKeepSlash(name) == Append(Replace(Lower(name), " ", "_"), ".jpg")

\* item["name"].lower().replace(" ", "_").replace("/", "-") + ".jpg"
Filename(name) == Append(Replace(Replace(Lower(name), " ", "_"), "/", "-"), ".jpg")

\* os.path.join(IMAGES_DIR, filename)
DestPath(i) == << "/workspace/presentation/images" >> \o Filename(syndromeNames[i])

\* --------------------------------------------------------------------- URLs
\* the direct image locator a record may carry
DirectUrl(i) == << "https://upload.wikimedia.org/", "image_url", i >>
\* page["thumbnail"]["source"] of the lookup answer for record i
ThumbUrl(i) == << "https://upload.wikimedia.org/", "thumbnail", i >>
\* the title the lookup is queried with: fallback_titles.get(name, name)
FallbackTitle(i) == << "fallback_title", i >>
\* the canonical title the lookup answer carries
CanonicalTitle(i) == << "canonical_title", i >>
\* f"https://en.wikipedia.org/wiki/{quote(title.replace(' ', '_'))}"
PageUrl(title) == << "https://en.wikipedia.org/wiki/" >> \o title

\* Python truthiness of an optional string
Truthy(x) == x # None

\* Python "a or b"
Or(a, b) == IF Truthy(a) THEN a ELSE b


\* ------------------------------------------------------- the outside world
\* what one HTTP image download can do (download_image, lines 140-144):
\*   ok          the bytes arrive and are written to dest_path
\*   timeout     requests.get raises (timeout, connection failure)
\*   http_error  resp.raise_for_status() raises
\*   open_error  open(dest_path, "wb") raises: nothing is created
\*   write_error f.write raises after open created or truncated the file
DownloadOutcomes == {"ok", "timeout", "http_error", "open_error", "write_error"}

\* what one lookup can do (fetch_wikipedia_thumbnail, lines 221-231):
\*   timeout, http_error   requests.get / raise_for_status raise
\*   bad_json              r.json() or the walk through the answer raises
\*   no_thumbnail          a well-formed answer without a "thumbnail" page
\*   thumbnail             a page with a thumbnail and its canonical title
\*   thumbnail_untitled    a page with a thumbnail and no "title" key
LookupOutcomes ==
  {"timeout", "http_error", "bad_json", "no_thumbnail", "thumbnail", "thumbnail_untitled"}

\* The part of an outcome that the rest of the program can observe; a re-run
\* against an unchanged network gets the same answer to the same request.
DownloadAnswer(kind) ==
  CASE kind = "ok" -> "saved"
    [] kind = "write_error" -> "truncated"
    [] OTHER -> "nothing"

LookupAnswer(kind) ==
  IF kind \in {"thumbnail", "thumbnail_untitled"} THEN kind ELSE "nothing"

Unasked == "unasked"
NoAnswers == [r \in Records |-> [direct |-> Unasked, lookup |-> Unasked, thumb |-> Unasked]]

\* ------------------------------------------------------------ download_image
\* faulty variant: only the request's own exceptions are caught, so a failure to
\* open or write the image file propagates out of download_image
download_image_narrow_except(kind, dest_path, fs) ==
  CASE kind = "ok" ->
         [path |-> dest_path, files |-> fs \cup {dest_path}, printed |-> None, raised |-> FALSE]
    [] kind = "write_error" ->
         [path |-> None, files |-> fs \cup {dest_path}, printed |-> << kind >>, raised |-> TRUE]
    [] kind = "open_error" ->
         [path |-> None, files |-> fs, printed |-> << kind >>, raised |-> TRUE]
    [] OTHER ->
         [path |-> None, files |-> fs, printed |-> << kind >>, raised |-> FALSE]

\* faulty variant: a file already at dest_path is reused instead of downloading
download_image_cached(kind, dest_path, fs) ==
  CASE dest_path \in fs ->
         [path |-> dest_path, files |-> fs, printed |-> None, raised |-> FALSE]
    [] dest_path \notin fs /\ kind = "ok" ->
         [path |-> dest_path, files |-> fs \cup {dest_path}, printed |-> None, raised |-> FALSE]
    [] dest_path \notin fs /\ kind = "write_error" ->
         [path |-> None, files |-> fs \cup {dest_path}, printed |-> << kind >>, raised |-> FALSE]
    [] OTHER ->
         [path |-> None, files |-> fs, printed |-> << kind >>, raised |-> FALSE]

\* download_image(url, dest_path): the returned path (or None), the files on
\* disk afterwards, the failure it printed, and whether an exception left it.
\* Every failure is an Exception and is caught by "except Exception".
download_image(kind, dest_path, fs) ==
  CASE kind = "ok" ->
         [path |-> dest_path, files |-> fs \cup {dest_path}, printed |-> None, raised |-> FALSE]
    [] kind = "write_error" ->
         [path |-> None, files |-> fs \cup {dest_path}, printed |-> << kind >>, raised |-> FALSE]
    [] OTHER ->
         [path |-> None, files |-> fs, printed |-> << kind >>, raised |-> FALSE]

\* ------------------------------------------------- fetch_wikipedia_thumbnail
\* fetch_wikipedia_thumbnail(page_title) for record r: (thumb_url, page_url)
fetch_wikipedia_thumbnail(kind, r) ==
  CASE kind = "thumbnail" ->
         [thumb |-> ThumbUrl(r), page |-> PageUrl(CanonicalTitle(r)), printed |-> None]
    [] kind = "thumbnail_untitled" ->
         [thumb |-> ThumbUrl(r), page |-> PageUrl(FallbackTitle(r)), printed |-> None]
    [] kind = "no_thumbnail" ->
         [thumb |-> None, page |-> None, printed |-> None]
    [] OTHER ->
         [thumb |-> None, page |-> None, printed |-> << kind >>]

\* ------------------------------------------------------------ slide builders
TitleSlide == [layout |-> 0, item |-> 0, picture |-> FALSE, body |-> << >>]

\* add_title_slide(prs, title, subtitle)
add_title_slide(deck) == Append(deck, TitleSlide)

\* faulty variant: a record without an image gets no slide
add_syndrome_slide_only_with_image(deck, r, image_path, fs) ==
  IF Truthy(image_path) /\ image_path \in fs
  THEN Append(deck, [layout |-> 5, item |-> r, picture |-> TRUE, body |-> << >>])
  ELSE deck

\* add_syndrome_slide(prs, item, image_path): title, description and bullets
\* of record r; picture and caption iff image_path is set and the file exists
add_syndrome_slide(deck, r, image_path, fs) ==
  Append(deck, [layout |-> 5, item |-> r,
                picture |-> (Truthy(image_path) /\ image_path \in fs),
                body |-> << >>])

\* add_references_slide(prs, refs): one paragraph per entry, in order
add_references_slide(deck, entries) ==
  Append(deck, [layout |-> 1, item |-> 0, picture |-> FALSE, body |-> entries])

\* f"Image: {item['name']} - {img_url_used}"
ImageRef(r, url) == << "Image", r, url >>

GeneralRefs ==
  << << "General references: IntechOpen, Medscape, NCBI Bookshelf, ClinicalGate, Aneskey" >>,
     << "Always verify local protocols and latest guidelines" >> >>

\* faulty variant: the general references are put in front of the image references
extend_refs_front(entries) == GeneralRefs \o entries

\* refs.extend([...]) at the end of main
extend_refs(entries) == entries \o GeneralRefs


\* ------------------------------------------------------------------- state
VARIABLES
  image_url,     \* dataset: the "image_url" field of each record (None or a URL)
  files,         \* the files present under IMAGES_DIR
  answers,       \* what the network and disk answered to each request of this run
  run,           \* how many times the script has been started
  same,          \* this run meets the same answers as the previous one
  prevPrs,       \* the deck the previous run saved (when same)
  pc,            \* position in main()
  i,             \* index of the record the loop is at
  img_path,      \* main: img_path
  img_url_used,  \* main: img_url_used
  thumb_url,     \* main: thumb_url
  page_url,      \* main: page_url
  prs,           \* the deck: sequence of slides
  refs,          \* main: refs
  calls,         \* the network calls made by this run, in order
  printed,       \* the last failure message printed for the current record
  nameA,         \* file-name derivation checked alone: two record names
  nameB,
  fileA,         \* and the file names derived from them
  fileB

vars == << image_url, files, answers, run, same, prevPrs, pc, i, img_path,
           img_url_used, thumb_url, page_url, prs, refs, calls, printed,
           nameA, nameB, fileA, fileB >>

nameVars == << nameA, nameB, fileA, fileB >>

\* where the loop body starts for record k: line 267 or line 271; after the
\* last record, line 283
FirstStep(k) ==
  IF k > NumRecords THEN "refs"
  ELSE IF Truthy(image_url[k]) THEN "direct" ELSE "lookup"

\* an answer recorded by the previous run is met again
Replays(recorded, answer) == recorded = Unasked \/ recorded = answer

Init ==
  /\ image_url \in [Records -> {None} \cup {DirectUrl(r) : r \in Records}]
  /\ \A r \in Records : image_url[r] \in {None, DirectUrl(r)}
  /\ files = {}
  /\ answers = NoAnswers
  /\ run = 1
  /\ same = FALSE
  /\ prevPrs = << >>
  /\ pc = "start"
  /\ i = 0
  /\ img_path = None
  /\ img_url_used = None
  /\ thumb_url = None
  /\ page_url = None
  /\ prs = << >>
  /\ refs = << >>
  /\ calls = << >>
  /\ printed = None
  /\ nameA = << >>
  /\ nameB = << >>
  /\ fileA = << >>
  /\ fileB = << >>

\* lines 238-245 and the head of the first iteration (lines 261-265)
Start ==
  /\ pc = "start"
  /\ prs' = add_title_slide(<< >>)
  /\ refs' = << >>
  /\ i' = 1
  /\ img_path' = None
  /\ img_url_used' = None
  /\ pc' = FirstStep(1)
  /\ UNCHANGED << image_url, files, answers, run, same, prevPrs, thumb_url,
                  page_url, calls, printed, nameVars >>

\* faulty variant: the lookup is made whatever the direct download returned
NeedsFallbackAlways(path) == TRUE

\* line 271: is the lookup needed
NeedsFallback(path) == ~Truthy(path)

\* what the request about to be made can come back with: anything on a first
\* run, the recorded answer when the previous run is repeated
DownloadKinds(recorded) ==
  {kind \in DownloadOutcomes : Replays(recorded, DownloadAnswer(kind))}

LookupKinds(recorded) ==
  {kind \in LookupOutcomes : Replays(recorded, LookupAnswer(kind))}

\* lines 267-269: the direct download
Direct ==
  /\ pc = "direct"
  /\ \E kind \in DownloadKinds(answers[i].direct) :
       /\ LET d == download_image(kind, DestPath(i), files) IN
          /\ files' = d.files
          /\ answers' = [answers EXCEPT ![i].direct = DownloadAnswer(kind)]
          /\ calls' = Append(calls, [rec |-> i, call |-> "direct", got |-> Truthy(d.path)])
          /\ printed' = IF d.printed = None THEN None ELSE << "direct" >> \o d.printed
          /\ IF d.raised
             THEN /\ pc' = "aborted"
                  /\ UNCHANGED << img_path, img_url_used >>
             ELSE /\ img_path' = d.path
                  /\ img_url_used' = IF Truthy(d.path) THEN image_url[i] ELSE None
                  /\ pc' = IF NeedsFallback(d.path) THEN "lookup" ELSE "slide"
  /\ UNCHANGED << image_url, run, same, prevPrs, i, thumb_url, page_url, prs,
                  refs, nameVars >>

\* lines 272-274: the lookup
Lookup ==
  /\ pc = "lookup"
  /\ \E kind \in LookupKinds(answers[i].lookup) :
       /\ LET f == fetch_wikipedia_thumbnail(kind, i) IN
          /\ answers' = [answers EXCEPT ![i].lookup = LookupAnswer(kind)]
          /\ calls' = Append(calls, [rec |-> i, call |-> "lookup", got |-> Truthy(f.thumb)])
          /\ printed' = IF f.printed = None
                        THEN (IF Truthy(image_url[i]) THEN printed ELSE None)
                        ELSE << "lookup" >> \o f.printed
          /\ thumb_url' = f.thumb
          /\ page_url' = f.page
          /\ pc' = IF Truthy(f.thumb) THEN "thumb" ELSE "slide"
  /\ UNCHANGED << image_url, files, run, same, prevPrs, i, img_path,
                  img_url_used, prs, refs, nameVars >>

\* faulty variant: the thumbnail's own URL is preferred as the locator
UrlUsedThumbFirst(page, thumb) == Or(thumb, page)

\* line 276: page_url or thumb_url
UrlUsed(page, thumb) == Or(page, thumb)

\* faulty variant: a failed thumbnail download is tried again
AfterThumbRetry(path) == IF Truthy(path) THEN "slide" ELSE "thumb"

\* lines 275-278: whatever the download returned, control falls through to
\* the reference check and the slide
AfterThumb(path) == "slide"

\* lines 275-276: the thumbnail download
Thumb ==
  /\ pc = "thumb"
  /\ \E kind \in DownloadKinds(answers[i].thumb) :
       /\ LET d == download_image(kind, DestPath(i), files) IN
          /\ files' = d.files
          /\ answers' = [answers EXCEPT ![i].thumb = DownloadAnswer(kind)]
          /\ calls' = Append(calls, [rec |-> i, call |-> "thumb", got |-> Truthy(d.path)])
          /\ printed' = IF d.printed = None THEN printed ELSE << "thumb" >> \o d.printed
          /\ IF d.raised
             THEN /\ pc' = "aborted"
                  /\ UNCHANGED << img_path, img_url_used >>
             ELSE /\ img_path' = d.path
                  /\ img_url_used' = UrlUsed(page_url, thumb_url)
                  /\ pc' = AfterThumb(d.path)
  /\ UNCHANGED << image_url, run, same, prevPrs, i, thumb_url, page_url, prs,
                  refs, nameVars >>

\* faulty variant: a locator alone is enough for a reference entry
HasReferenceUrlOnly(path, url) == Truthy(url)

\* line 278: img_path and img_url_used
HasReference(path, url) == Truthy(path) /\ Truthy(url)

\* faulty variant: the slide is handed the destination path
SlideImageDestPath(path, dest_path) == dest_path

\* line 281: the path handed to add_syndrome_slide
SlideImage(path, dest_path) == path

\* lines 278-281, and the head of the next iteration (lines 261-265)
\* (thumb_url and page_url keep their values in Python; they are assigned at
\* line 273 before lines 274-276 read them, so they are cleared here)
Slide ==
  /\ pc = "slide"
  /\ refs' = IF HasReference(img_path, img_url_used)
             THEN Append(refs, ImageRef(i, img_url_used))
             ELSE refs
  /\ prs' = add_syndrome_slide(prs, i, SlideImage(img_path, DestPath(i)), files)
  /\ i' = i + 1
  /\ img_path' = None
  /\ img_url_used' = None
  /\ thumb_url' = None
  /\ page_url' = None
  /\ pc' = FirstStep(i + 1)
  /\ UNCHANGED << image_url, files, answers, run, same, prevPrs, calls,
                  printed, nameVars >>

\* lines 283-287
References ==
  /\ pc = "refs"
  /\ refs' = extend_refs(refs)
  /\ prs' = add_references_slide(prs, extend_refs(refs))
  /\ printed' = None
  /\ pc' = "save"
  /\ UNCHANGED << image_url, files, answers, run, same, prevPrs, i, img_path,
                  img_url_used, thumb_url, page_url, calls, nameVars >>

\* lines 289-290: prs.save either writes the file or raises
Save ==
  /\ pc = "save"
  /\ \E written \in BOOLEAN : pc' = IF written THEN "done" ELSE "aborted"
  /\ UNCHANGED << image_url, files, answers, run, same, prevPrs, i, img_path,
                  img_url_used, thumb_url, page_url, prs, refs, calls, printed,
                  nameVars >>

\* the script is started again on the images directory the last run left;
\* keep: the network and the disk answer as they did in the last run
Rerun(keep) ==
  /\ pc = "done"
  /\ run < MaxRuns
  /\ run' = run + 1
  /\ same' = keep
  /\ prevPrs' = IF keep THEN prs ELSE << >>
  /\ answers' = IF keep THEN answers ELSE NoAnswers
  /\ pc' = "start"
  /\ i' = 0
  /\ prs' = << >>
  /\ refs' = << >>
  /\ calls' = << >>
  /\ UNCHANGED << image_url, files, img_path, img_url_used, thumb_url,
                  page_url, printed, nameVars >>

RerunSame == Rerun(TRUE)

RerunFresh == Rerun(FALSE)

\* one run of the script, from its start to the end of main()
Next ==
  \/ Start
  \/ Direct
  \/ Lookup
  \/ Thumb
  \/ Slide
  \/ References
  \/ Save

\* one run, over every assignment of direct URLs to the records
Spec == Init /\ [][Next]_vars

\* the script run again and again on one images directory; the dataset is the
\* shipped one (no record carries a direct URL) or has one on its first record
InitRuns ==
  /\ Init
  /\ \A r \in Records : r > 1 => image_url[r] = None

NextRuns ==
  \/ Next
  \/ RerunSame
  \/ RerunFresh

SpecRuns == InitRuns /\ [][NextRuns]_vars

\* ------------------------------------------- file-name derivation on its own
Alphabet == {"A", "a", " ", "_", "/", "-"}

\* the names of the shipped records
ShippedNames == {syndromeNames[r] : r \in DOMAIN syndromeNames}

\* the names the derivation is tried on: every short name over the alphabet,
\* and the shipped ones
Names == UNION {[1 .. n -> Alphabet] : n \in 0 .. MaxNameLen} \cup ShippedNames

InitNames ==
  /\ image_url = [r \in Records |-> None]
  /\ files = {}
  /\ answers = NoAnswers
  /\ run = 1
  /\ same = FALSE
  /\ prevPrs = << >>
  /\ pc = "start"
  /\ i = 0
  /\ img_path = None
  /\ img_url_used = None
  /\ thumb_url = None
  /\ page_url = None
  /\ prs = << >>
  /\ refs = << >>
  /\ calls = << >>
  /\ printed = None
  /\ nameA \in Names
  /\ nameB \in Names
  /\ fileA = << >>
  /\ fileB = << >>

\* line 261 applied to two records' names
Derive ==
  /\ fileA = << >>
  /\ fileA' = Filename(nameA)
  /\ fileB' = Filename(nameB)
  /\ UNCHANGED << image_url, files, answers, run, same, prevPrs, pc, i,
                  img_path, img_url_used, thumb_url, page_url, prs, refs,
                  calls, printed, nameA, nameB >>

NextNames == Derive

SpecNames == InitNames /\ [][NextNames]_vars


\* ------------------------------------------------------------ vocabulary
\* the records whose slide this run has built
Built == {r \in Records : r < i}

\* the slide of record r sits right after the title slide and its predecessors
SlideOf(r) == prs[r + 1]

IsImageRef(e, r) == Len(e) = 3 /\ e[1] = "Image" /\ e[2] = r

\* positions of record r's entries in the reference list
RefsOf(r) == {k \in 1 .. Len(refs) : IsImageRef(refs[k], r)}

\* the calls this run made for record r
CallsOf(r) == {k \in 1 .. Len(calls) : calls[k].rec = r}

Called(r, what) == \E k \in CallsOf(r) : calls[k].call = what

Got(r, what) == \E k \in CallsOf(r) : calls[k].call = what /\ calls[k].got

\* a download of this run returned a local path for record r
Resolved(r) == Got(r, "direct") \/ Got(r, "thumb")

\* main() is inside the loop over the records or at the references
InLoop == pc \in {"direct", "lookup", "thumb", "slide", "refs"}

\* the deck is complete: title, one slide per record in order, references
CompleteDeck ==
  /\ Len(prs) = 1 + NumRecords + 1
  /\ prs[1] = TitleSlide
  /\ \A r \in Records : SlideOf(r).layout = 5 /\ SlideOf(r).item = r
  /\ prs[Len(prs)].layout = 1

\* --------------------------------------------------------------- claims

\* C1: whatever the image outcomes were, at the save step the deck holds
\* exactly 1 + len(syndromes) + 1 slides: the title slide, one slide per
\* record in dataset order, the references slide.
C1_SlideCount == pc = "save" => CompleteDeck

\* a run at the save step in which one record got a picture and another not
C1_Witness ==
  /\ pc = "save"
  /\ \E r \in Records : SlideOf(r).picture
  /\ \E r \in Records : ~SlideOf(r).picture

\* C2: a record whose slide is built has a reference entry iff a download
\* returned a local path for it in this run (and then exactly one entry); in
\* particular a thumbnail found but not downloaded adds no entry.
C2_RefIffResolved ==
  \A r \in Built :
    /\ (RefsOf(r) # {}) <=> Resolved(r)
    /\ Cardinality(RefsOf(r)) <= 1

\* a record whose lookup gave a thumbnail that then failed to download, next
\* to a record that was resolved
C2_Witness ==
  /\ \E r \in Built : Got(r, "lookup") /\ Called(r, "thumb") /\ ~Got(r, "thumb")
                      /\ RefsOf(r) = {}
  /\ \E r \in Built : Resolved(r) /\ RefsOf(r) # {}

\* C3: once the references slide is built the list has one entry per resolved
\* record, in dataset order, followed by the two fixed strings in their order;
\* the slide shows that list.
C3_RefsShape ==
  pc = "save" =>
    /\ Len(refs) = Cardinality({r \in Records : Resolved(r)}) + 2
    /\ SubSeq(refs, Len(refs) - 1, Len(refs)) = GeneralRefs
    /\ \A k \in 1 .. Len(refs) - 2 : \E r \in Records : IsImageRef(refs[k], r)
    /\ \A k, l \in 1 .. Len(refs) - 2 : k < l => refs[k][2] < refs[l][2]
    /\ prs[Len(prs)].body = refs

\* a finished list with at least two image entries and an unresolved record
\* or, with two records only, two image entries
C3_Witness ==
  /\ pc = "save"
  /\ Len(refs) >= 4
  /\ Len(refs) = NumRecords + 2

\* C4: a record whose direct download succeeded is never looked up, and its
\* reference entry carries the direct URL.
C4_DirectWins ==
  \A r \in Records :
    Got(r, "direct") =>
      /\ ~Called(r, "lookup")
      /\ ~Called(r, "thumb")
      /\ (r = i /\ pc = "slide") => img_url_used = DirectUrl(r)
      /\ r \in Built => \A k \in RefsOf(r) : refs[k] = ImageRef(r, DirectUrl(r))

\* a record resolved by its direct URL, its slide built and its entry listed
C4_Witness ==
  \E r \in Built :
    /\ Got(r, "direct")
    /\ SlideOf(r).picture
    /\ \E k \in RefsOf(r) : refs[k] = ImageRef(r, DirectUrl(r))

\* C5: a record whose direct download failed while the lookup and the
\* thumbnail download succeeded gets a picture, and its reference entry
\* carries the constructed page URL, not the direct nor the thumbnail URL.
C5_FallbackLocator ==
  \A r \in Built :
    (Called(r, "direct") /\ ~Got(r, "direct") /\ Got(r, "lookup") /\ Got(r, "thumb")) =>
      /\ SlideOf(r).picture
      /\ RefsOf(r) # {}
      /\ \A k \in RefsOf(r) :
           /\ refs[k][3] \in {PageUrl(CanonicalTitle(r)), PageUrl(FallbackTitle(r))}
           /\ refs[k][3] # DirectUrl(r)
           /\ refs[k][3] # ThumbUrl(r)

\* the record just built had its direct fetch time out and was resolved by
\* the fallback
C5_Witness ==
  /\ i >= 2
  /\ printed = << "direct", "timeout" >>
  /\ Got(i - 1, "lookup")
  /\ Got(i - 1, "thumb")
  /\ SlideOf(i - 1).picture
  /\ \E k \in RefsOf(i - 1) : refs[k][3] = PageUrl(CanonicalTitle(i - 1))

\* the request main() is about to make gets some answer, so the step at pc
\* can be taken (the slide and references steps have no condition at all)
CanStep ==
  /\ pc = "direct" => DownloadKinds(answers[i].direct) # {}
  /\ pc = "lookup" => LookupKinds(answers[i].lookup) # {}
  /\ pc = "thumb" => DownloadKinds(answers[i].thumb) # {}

\* an upper bound on the steps left before the save step
Rank ==
  4 * (NumRecords + 1 - i) +
    (CASE pc = "direct" -> 4
       [] pc = "lookup" -> 3
       [] pc = "thumb" -> 2
       [] pc = "slide" -> 1
       [] OTHER -> 0)

\* C6: a failure during image resolution never aborts the run.  Whatever the
\* requests so far returned, main() inside the loop can take its next step,
\* that step never aborts, it either comes nearer to the save step or reaches
\* it with a complete deck, and only the save itself can abort the run.
C6_FailureNeverAborts ==
  /\ [](InLoop => CanStep)
  /\ [](pc = "aborted" => CompleteDeck)
  /\ [][InLoop =>
          /\ pc' # "aborted"
          /\ pc' = "save" => CompleteDeck'
          /\ pc' # "save" => (InLoop' /\ Rank' < Rank)]_vars

\* the save step reached although every request of every record failed
C6_Witness ==
  /\ pc = "save"
  /\ CompleteDeck
  /\ \A r \in Records : CallsOf(r) # {} /\ \A k \in CallsOf(r) : ~calls[k].got

C8_Idempotent == (same /\ pc = "save") => prs = prevPrs

\* a repeated run at its save step, with a picture on one slide and none on
\* another, and a file on disk whose record has no picture
C8_Witness ==
  /\ same
  /\ pc = "save"
  /\ \E r \in Records : SlideOf(r).picture
  /\ \E r \in Records : ~SlideOf(r).picture /\ DestPath(r) \in files

BadChars == {" ", "/"} \cup DOMAIN LowerTable

NoBadChars(f) == \A k \in 1 .. Len(f) : f[k] \notin BadChars

\* two characters that the derivation does not tell apart
Folded(c, d) ==
  \/ c = d
  \/ {c, d} = {" ", "_"}
  \/ {c, d} = {"/", "-"}
  \/ (c \in DOMAIN LowerTable /\ LowerTable[c] = d)
  \/ (d \in DOMAIN LowerTable /\ LowerTable[d] = c)

C10_PictureIffReference ==
  \A r \in Built : SlideOf(r).picture <=> RefsOf(r) # {}

\* second run: the record's file is on disk, this run wrote nothing to it,
\* and the slide has no picture
C10_Witness ==
  /\ run >= 2
  /\ \E r \in Built :
       /\ DestPath(r) \in files
       /\ CallsOf(r) # {}
       /\ answers[r].direct \in {Unasked, "nothing"}
       /\ answers[r].thumb \in {Unasked, "nothing"}
       /\ ~SlideOf(r).picture
       /\ RefsOf(r) = {}

====
